---- MODULE Spec2Model ----
(***************************************************************************)
(* Model of the remote-debugging strategy of AutoAccept-Antigravity:       *)
(*   - CDPClient    (src/src/cdpClient.ts)      the Session Client         *)
(*   - AutoAcceptor (src/unnamed/part_000:299)  the Action Supervisor      *)
(*                                                                         *)
(* JavaScript runs one macrotask (a timer callback, a socket event, a      *)
(* public call) at a time; promise continuations are microtasks that run   *)
(* before the next macrotask.  Every action below is one macrotask with    *)
(* the microtasks it triggers.  The handlers are written as functions      *)
(* from a state record to a state record so that a handler calling         *)
(* another handler is plain composition.                                   *)
(*                                                                         *)
(* Two specifications share the environment actions:                       *)
(*   Spec        the supervisor drives the client (start/stop/toggle/      *)
(*               dispose and the poll timer); FairSpec is Spec with the    *)
(*               call timers firing;                                       *)
(*   ClientSpec  an arbitrary caller drives the client's public API        *)
(*               (connect/send/disconnect/dispose); its observers may      *)
(*               throw.                                                    *)
(* Three more cover the parts that stand on their own:                     *)
(*   PortSpec      the connection API called with every kind of port;      *)
(*   ScriptSpec    the action script evaluated on an arbitrary page;       *)
(*   SettingsSpec  the settings strategy (src/src/autoAcceptor.ts) with    *)
(*                 its CommandAcceptor (src/src/commandAcceptor.ts).       *)
(***************************************************************************)
EXTENDS Integers, Sequences, FiniteSets, TLC

VARIABLES
    \* ---- CDPClient fields ----
    ws,                     \* this.ws: 0 = null, else the socket it references
    messageId,              \* this.messageId
    callbacks,              \* keys of this.callbacks
    port,                   \* this.port
    retryCount,             \* this.retryCount
    retryTimer,             \* this.retryTimer # null
    intentionalDisconnect,  \* this.intentionalDisconnect
    isDisposed,             \* CDPClient.isDisposed
    \* ---- event-loop / environment state ----
    socks,                  \* every WebSocket object created by doConnect
    discovery,              \* /json/list requests in flight, per awaiting party
    callTimers,             \* ids whose per-call setTimeout is armed
    orphanTimers,           \* armed reconnect timers this.retryTimer no longer references
    calls,                  \* per id, how often the promise send() returned was settled
    \* ---- AutoAcceptor fields ----
    isRunning,              \* AutoAcceptor.isRunning
    supDisposed,            \* AutoAcceptor.isDisposed
    pollInterval,           \* AutoAcceptor.pollInterval # null
    isPollInProgress,       \* AutoAcceptor.isPollInProgress
    statusBar,              \* state last shown by updateStatusBar
    pollCalls,              \* ids of send() calls a poll tick is awaiting
    wired,                  \* the supervisor's handlers are the client's observers
    \* ---- observation (history) variables ----
    events,                 \* observers fired and connect() futures settled by the last step
    settledNow,             \* <<id, outcome>> of the send() promises the last step settled
    dropPending,            \* an established socket dropped, and since then no socket
                            \* opened and neither connect() nor disconnect() was called
    failedFired,            \* onReconnectFailed firings since the last connect()
    awaitReconnect,         \* an established socket dropped, and since then
                            \* onReconnect did not fire and neither connect() nor
                            \* disconnect() was called
    sinceOpen,              \* reconnect timers scheduled since a socket last opened
                            \* (negative: no socket has opened yet)
    lastSched,              \* [n, k, delay] of the reconnect timer the last step
                            \* scheduled: n = retryCount, k = sinceOpen before it
    \* ---- the page the action script runs in ----
    dom,                    \* the buttons in document order, the visible text
    blockedCmds,            \* autoAcceptAgent.blockedCommands as poll() read it
    scriptResult,           \* what the action script returned and did
    \* ---- the settings strategy (src/src/autoAcceptor.ts) ----
    settings,               \* the host's global value of every managed setting
    native,                 \* the settings AutoAcceptor: isRunning, isDisposed,
                            \* savedSettings, and for every start() that is
                            \* awaiting config.update the setting it handles next
    before,                 \* settings as they were when start() was last called
    phase                   \* "started" after a start() call, "stopped" after the
                            \* stop() or dispose() call that follows it, else "idle"

sessionVars == << ws, messageId, callbacks, port, retryCount, retryTimer,
           intentionalDisconnect, isDisposed, socks, discovery, callTimers,
           orphanTimers, calls, isRunning, supDisposed, pollInterval,
           isPollInProgress, statusBar, pollCalls, wired, events,
           settledNow, dropPending, failedFired, awaitReconnect, sinceOpen,
           lastSched >>

scriptVars == << dom, blockedCmds, scriptResult >>

nativeVars == << settings, native, before, phase >>

vars == << sessionVars, scriptVars, nativeVars >>

----------------------------------------------------------------------------
\* Bounds of the model
MaxSockets      == 2    \* WebSocket objects alive at once
MaxCalls        == 2    \* send() calls that register a PendingCall in one run
MaxDiscovery    == 1    \* discovery requests in flight at once
MaxOrphanTimers == 1    \* armed reconnect timers beyond the referenced one
MaxCounted      == 2    \* sinceOpen counts up to here; this value means "or more"

\* DEFAULT_OPTIONS
maxRetries        == 10
initialRetryDelay == 1000
maxRetryDelay     == 30000

DefaultPort == 9222

SockIds == 1..MaxSockets
CallIds == 1..MaxCalls
Kinds   == {"connect", "start", "retry"}

Min(a, b) == IF a <= b THEN a ELSE b

RECURSIVE Pow2(_)
Pow2(n) == IF n = 0 THEN 1 ELSE 2 * Pow2(n - 1)

NoSock  == [state |-> "none", waiter |-> "none"]
NoSched == [n |-> 0, k |-> 0, delay |-> 0]

\* The whole program state as one record.  throws is no part of the state:
\* it is the input of a step, set when the observers the caller registered
\* throw in that step.
Cur == [ ws |-> ws, messageId |-> messageId, callbacks |-> callbacks,
         port |-> port, retryCount |-> retryCount, retryTimer |-> retryTimer,
         intentionalDisconnect |-> intentionalDisconnect,
         isDisposed |-> isDisposed, socks |-> socks, discovery |-> discovery,
         callTimers |-> callTimers, orphanTimers |-> orphanTimers,
         calls |-> calls, isRunning |-> isRunning, supDisposed |-> supDisposed,
         pollInterval |-> pollInterval, isPollInProgress |-> isPollInProgress,
         statusBar |-> statusBar, pollCalls |-> pollCalls, wired |-> wired,
         events |-> events, settledNow |-> settledNow,
         dropPending |-> dropPending, failedFired |-> failedFired,
         awaitReconnect |-> awaitReconnect, sinceOpen |-> sinceOpen,
         lastSched |-> lastSched, throws |-> FALSE ]

Commit(st) ==
    /\ ws' = st.ws /\ messageId' = st.messageId /\ callbacks' = st.callbacks
    /\ port' = st.port /\ retryCount' = st.retryCount
    /\ retryTimer' = st.retryTimer
    /\ intentionalDisconnect' = st.intentionalDisconnect
    /\ isDisposed' = st.isDisposed /\ socks' = st.socks
    /\ discovery' = st.discovery /\ callTimers' = st.callTimers
    /\ orphanTimers' = st.orphanTimers /\ calls' = st.calls
    /\ isRunning' = st.isRunning /\ supDisposed' = st.supDisposed
    /\ pollInterval' = st.pollInterval
    /\ isPollInProgress' = st.isPollInProgress
    /\ statusBar' = st.statusBar /\ pollCalls' = st.pollCalls
    /\ wired' = st.wired
    /\ events' = st.events /\ settledNow' = st.settledNow
    /\ dropPending' = st.dropPending
    /\ failedFired' = st.failedFired
    /\ awaitReconnect' = st.awaitReconnect
    /\ sinceOpen' = st.sinceOpen
    /\ lastSched' = st.lastSched
    /\ UNCHANGED << scriptVars, nativeVars >>

Emit(st, e) == [st EXCEPT !.events = Append(@, e)]

\* What the last step did
Fired(e)  == \E i \in 1..Len(events) : events[i] = e
Count(e)  == Cardinality({i \in 1..Len(events) : events[i] = e})

----------------------------------------------------------------------------
\* CDPClient

\* get isConnected: this.ws !== null && this.ws.readyState === WebSocket.OPEN
IsConnected(st) == st.ws # 0 /\ st.socks[st.ws].state = "open"

\* One call of the resolve or reject function of the promise send() returned
\* for id.  A promise keeps its first outcome; calls counts the calls.
SettleCall(st, id, how) ==
    [st EXCEPT !.calls[id] = Min(@ + 1, 2),
               !.settledNow = @ \cup {<<id, how>>}]

RECURSIVE SettleAll(_, _, _)
SettleAll(st, ids, how) ==
    IF ids = {} THEN st
    ELSE LET id == CHOOSE i \in ids : \A j \in ids : i <= j
         IN  SettleAll(SettleCall(st, id, how), ids \ {id}, how)

\* Variant of the microtasks in which poll() stops the loop when its send()
\* was rejected
RunMicrotasks_Fatal(st) ==
    LET done == {id \in st.pollCalls : st.calls[id] > 0}
    IN  IF done = {} THEN st
        ELSE [st EXCEPT !.pollCalls = @ \ done, !.isPollInProgress = FALSE,
                        !.pollInterval =
                            IF \E id \in done : << id, "rejected" >> \in st.settledNow
                            THEN FALSE ELSE @]

\* Variant of the microtasks in which poll() has no finally block
RunMicrotasks_NoFinally(st) ==
    LET done == {id \in st.pollCalls : st.calls[id] > 0}
    IN  IF done = {} THEN st
        ELSE [st EXCEPT !.pollCalls = @ \ done]

\* Microtasks: the finally block of every poll tick whose send() has settled.
RunMicrotasks(st) ==
    LET done == {id \in st.pollCalls : st.calls[id] > 0}
    IN  IF done = {} THEN st
        ELSE [st EXCEPT !.pollCalls = @ \ done, !.isPollInProgress = FALSE]

\* AutoAcceptor.pausePolling
PausePolling(st) == [st EXCEPT !.pollInterval = FALSE]

\* AutoAcceptor.resumePolling
ResumePolling(st) ==
    IF st.supDisposed \/ st.pollInterval THEN st
    ELSE [st EXCEPT !.pollInterval = TRUE]

\* AutoAcceptor.updateStatusBar
UpdateStatusBar(st, state) ==
    IF st.supDisposed THEN st ELSE [st EXCEPT !.statusBar = state]

\* The observer the supervisor registers with cdp.onDisconnect
OnDisconnect(st) ==
    IF st.supDisposed THEN st
    ELSE UpdateStatusBar(PausePolling(st), "reconnecting")

\* The observer the supervisor registers with cdp.onReconnect
OnReconnect(st) ==
    IF st.supDisposed THEN st
    ELSE UpdateStatusBar(ResumePolling(st), "on")

\* The observer the supervisor registers with cdp.onReconnectFailed
OnReconnectFailed(st) ==
    IF st.supDisposed THEN st
    ELSE UpdateStatusBar([st EXCEPT !.isRunning = FALSE], "off")

\* An observer of the caller's returns, or throws when the step's input
\* says so
Observer(st, name) ==
    IF st.throws /\ ~st.wired THEN Emit(st, name \o ":threw") ELSE st

\* The last thing that ran threw, and nothing has caught it
Threw(st) ==
    /\ st.events # << >>
    /\ st.events[Len(st.events)] \in
            {"onLog:threw", "onDisconnect:threw", "onReconnect:threw",
             "onReconnectFailed:threw"}

\* CDPClient.log: try { if (this._onLog) this._onLog(message); } catch {}
Log(st) == IF st.isDisposed THEN st ELSE Observer(st, "onLog")

\* if (this._onX) { this._onX(); }: dispose() nulls the observers
FireOnDisconnect(st) ==
    IF st.isDisposed THEN st
    ELSE IF st.wired THEN OnDisconnect(Emit(st, "onDisconnect"))
    ELSE Observer(Emit(st, "onDisconnect"), "onDisconnect")

FireOnReconnect(st) ==
    IF st.isDisposed THEN st
    ELSE LET a == [Emit(st, "onReconnect") EXCEPT !.awaitReconnect = FALSE]
         IN  IF a.wired THEN OnReconnect(a) ELSE Observer(a, "onReconnect")

FireOnReconnectFailed(st) ==
    IF st.isDisposed THEN st
    ELSE LET a == [Emit(st, "onReconnectFailed") EXCEPT
                        !.failedFired = Min(@ + 1, 2)]
         IN  IF a.wired THEN OnReconnectFailed(a)
             ELSE Observer(a, "onReconnectFailed")

\* Variant of the delay without the Math.min cap
Backoff_NoCap(n) == initialRetryDelay * Pow2(n)

\* The delay computed by scheduleReconnect for the current retryCount
Backoff(n) == Min(initialRetryDelay * Pow2(n), maxRetryDelay)

\* CDPClient.scheduleReconnect, up to the setTimeout call
ScheduleReconnect(st) ==
    IF st.intentionalDisconnect \/ st.isDisposed THEN st
    ELSE IF st.retryCount >= maxRetries THEN FireOnReconnectFailed(Log(st))
    ELSE [Log(st) EXCEPT
            !.lastSched = [n |-> st.retryCount, k |-> st.sinceOpen,
                           delay |-> Backoff(st.retryCount)],
            !.retryCount = @ + 1,
            !.sinceOpen = IF @ < 0 THEN @ ELSE Min(@ + 1, MaxCounted),
            !.orphanTimers = IF st.retryTimer THEN @ + 1 ELSE @,
            !.retryTimer = TRUE]

\* scheduleReconnect arms one more timer: within the bound on armed timers
CanSchedule(st) ==
    \/ st.intentionalDisconnect \/ st.isDisposed
    \/ st.retryCount >= maxRetries
    \/ ~st.retryTimer
    \/ st.orphanTimers < MaxOrphanTimers

\* Variant of rejectAllPending without this.callbacks.clear()
RejectAllPending_NoClear(st) ==
    [SettleAll(st, st.callbacks, "rejected") EXCEPT
        !.callTimers = @ \ st.callbacks]

\* CDPClient.rejectAllPending
RejectAllPending(st) ==
    [SettleAll(st, st.callbacks, "rejected") EXCEPT
        !.callTimers = @ \ st.callbacks,
        !.callbacks = {}]

\* What runs after `await this.cdp.connect(9222)` in AutoAcceptor.start
StartResolved(st) ==
    ResumePolling(UpdateStatusBar(
        [Emit(st, "startResolved") EXCEPT !.isRunning = TRUE], "on"))

\* The catch block of AutoAcceptor.start
StartRejected(st) ==
    UpdateStatusBar([Emit(st, "startRejected") EXCEPT !.isRunning = FALSE],
                    "off")

\* The continuation of whoever awaits a doConnect() promise that resolved
ConnectResolved(st, kind) ==
    IF kind = "start" THEN StartResolved(st)
    ELSE IF kind = "retry" THEN FireOnReconnect(Log(st))
    ELSE Emit(st, "connectResolved")

\* The continuation of whoever awaits a doConnect() promise that rejected
ConnectRejected(st, kind) ==
    IF kind = "start" THEN StartRejected(st)
    ELSE IF kind = "retry" THEN ScheduleReconnect(st)
    ELSE Emit(st, "connectRejected")

\* A port as JavaScript sees it: not of type number, NaN, or the number
\* value (+ 1/2 when half is set)
Num(v) == [isNumber |-> TRUE, isNaN |-> FALSE, value |-> v, half |-> FALSE]

\* port <= 0 and port > 65535: every comparison with NaN is false
LeqZero(p) == ~p.isNaN /\ p.value <= (IF p.half THEN -1 ELSE 0)

GtMax(p) == ~p.isNaN /\ (p.value > 65535 \/ (p.value = 65535 /\ p.half))

\* `http://127.0.0.1:${this.port}/json/list` is a URL when the port is
\* written in digits only; http.get throws on any other text
UrlPort(p) == p.isNumber /\ ~p.isNaN /\ ~p.half /\ p.value >= 0

\* CDPClient.doConnect up to http.get: the discovery request is in flight,
\* or http.get threw and the promise is rejected at once
DoConnect(st, kind) ==
    IF st.isDisposed THEN ConnectRejected(st, kind)
    ELSE IF ~UrlPort(st.port) THEN ConnectRejected(st, kind)
    ELSE [st EXCEPT !.discovery[kind] = @ + 1]

\* The negation of the check in connect():
\* typeof port !== 'number' || port <= 0 || port > 65535
ValidPort(p) == ~(~p.isNumber \/ LeqZero(p) \/ GtMax(p))

\* Variant of the connect() guards without the isDisposed check
ConnectError_NoDisposed(st, p) ==
    IF ~ValidPort(p) THEN "InvalidArgument" ELSE "none"

\* The error CDPClient.connect throws before it changes anything
ConnectError(st, p) ==
    IF st.isDisposed THEN "Disposed"
    ELSE IF ~ValidPort(p) THEN "InvalidArgument"
    ELSE "none"

\* Variant of connect() that restarts the correlation ids
Connect_ResetIds(st, p, kind) ==
    IF ConnectError(st, p) # "none" THEN st
    ELSE DoConnect([st EXCEPT !.port = p,
                              !.intentionalDisconnect = FALSE,
                              !.retryCount = 0,
                              !.messageId = 1,
                              !.dropPending = FALSE,
                              !.awaitReconnect = FALSE,
                              !.failedFired = 0], kind)

\* CDPClient.connect
Connect(st, p, kind) ==
    IF ConnectError(st, p) # "none" THEN st
    ELSE DoConnect([st EXCEPT !.port = p,
                              !.intentionalDisconnect = FALSE,
                              !.retryCount = 0,
                              !.dropPending = FALSE,
                              !.awaitReconnect = FALSE,
                              !.failedFired = 0], kind)

\* WebSocket.close(): the closing handshake starts, 'close' is emitted later
CloseSocket(st, s) ==
    [st EXCEPT !.socks[s] =
        IF @.state \in {"connecting", "open"}
        THEN [state |-> "closing", waiter |-> "none"] ELSE @]

\* Variant of disconnect() that keeps referencing the socket it closed
Disconnect_KeepsHandle(st, closeThrows) ==
    IF st.isDisposed THEN st
    ELSE LET a == [st EXCEPT !.intentionalDisconnect = TRUE,
                             !.retryTimer = FALSE,
                             !.dropPending = FALSE,
                             !.awaitReconnect = FALSE]
             b == RejectAllPending(a)
         IN  IF b.ws = 0 THEN b
             ELSE IF closeThrows THEN Emit(b, "closeThrew")
             ELSE CloseSocket(b, b.ws)

\* CDPClient.disconnect; closeThrows says whether this.ws.close() throws,
\* which is caught and leaves the socket as it was
Disconnect(st, closeThrows) ==
    IF st.isDisposed THEN st
    ELSE LET a == [st EXCEPT !.intentionalDisconnect = TRUE,
                             !.retryTimer = FALSE,
                             !.dropPending = FALSE,
                             !.awaitReconnect = FALSE]
             b == RejectAllPending(a)
         IN  IF b.ws = 0 THEN b
             ELSE IF closeThrows THEN [Emit(b, "closeThrew") EXCEPT !.ws = 0]
             ELSE [CloseSocket(b, b.ws) EXCEPT !.ws = 0]

\* CDPClient.dispose
ClientDispose(st) ==
    IF st.isDisposed THEN st
    ELSE Disconnect([st EXCEPT !.isDisposed = TRUE], FALSE)

\* Variant of the checks of send without the one on the socket
SendError_NoSocketCheck(st, method) ==
    IF st.isDisposed THEN "Disposed"
    ELSE IF method = "" THEN "InvalidArgument"
    ELSE "none"

\* The error CDPClient.send throws before it changes anything
SendError(st, method) ==
    IF st.isDisposed THEN "Disposed"
    ELSE IF method = "" THEN "InvalidArgument"
    ELSE IF ~IsConnected(st) THEN "NotConnected"
    ELSE "none"

\* CDPClient.send; throws says whether ws.send() throws
Send(st, method, throws, byPoll) ==
    IF SendError(st, method) # "none" THEN st
    ELSE LET id == st.messageId
             a  == [st EXCEPT !.messageId = @ + 1,
                              !.callTimers = @ \cup {id},
                              !.callbacks = @ \cup {id},
                              !.calls[id] = 0,
                              !.pollCalls = IF byPoll THEN @ \cup {id} ELSE @]
         IN  IF throws
             THEN SettleCall(
                    IF id \in a.callbacks
                    THEN [a EXCEPT !.callTimers = @ \ {id},
                                   !.callbacks = @ \ {id}]
                    ELSE a, id, "rejected")
             ELSE a

\* Variant of the timer callback that rejects and keeps the entry
CallTimedOut_NoDelete(st, id) ==
    LET a == [st EXCEPT !.callTimers = @ \ {id}]
    IN  IF id \in a.callbacks
        THEN SettleCall(Emit(a, "CallTimeout"), id, "rejected")
        ELSE a

\* Variant of the timer callback that gives up the whole pending table
CallTimedOut_RejectAll(st, id) ==
    LET a == [st EXCEPT !.callTimers = @ \ {id}]
    IN  IF id \in a.callbacks
        THEN RejectAllPending(Emit(a, "CallTimeout"))
        ELSE a

\* The timer callback send() arms for one call; the rejection carries the
\* timed-out error, recorded as the event "CallTimeout"
CallTimedOut(st, id) ==
    LET a == [st EXCEPT !.callTimers = @ \ {id}]
    IN  IF id \in a.callbacks
        THEN SettleCall([Emit(a, "CallTimeout") EXCEPT !.callbacks = @ \ {id}],
                        id, "rejected")
        ELSE a

\* Variant of handleMessage that leaves the timer of the call armed
HandleMessage_KeepsTimer(st, frame) ==
    IF frame.kind \in {"garbage", "noid", "textid"} THEN st
    ELSE IF frame.id \in st.callbacks
    THEN SettleCall([st EXCEPT !.callbacks = @ \ {frame.id}],
                    frame.id,
                    IF frame.kind = "error" THEN "rejected" ELSE "resolved")
    ELSE st

\* Variant of handleMessage without the this.callbacks.has(id) test
HandleMessage_NoLookup(st, frame) ==
    IF frame.kind \in {"garbage", "noid", "textid"} THEN st
    ELSE SettleCall([st EXCEPT !.callTimers = @ \ {frame.id},
                               !.callbacks = @ \ {frame.id}],
                    frame.id,
                    IF frame.kind = "error" THEN "rejected" ELSE "resolved")

\* CDPClient.handleMessage on one inbound frame: text that is not JSON, a
\* frame without id, a frame whose id is a string, or a frame with a
\* numeric id that carries a result or an error
HandleMessage(st, frame) ==
    IF frame.kind \in {"garbage", "noid", "textid"} THEN st
    ELSE IF frame.id \in st.callbacks
    THEN SettleCall([st EXCEPT !.callTimers = @ \ {frame.id},
                               !.callbacks = @ \ {frame.id}],
                    frame.id,
                    IF frame.kind = "error" THEN "rejected" ELSE "resolved")
    ELSE st

\* The ws 'open' handler of doConnect, and the awaiting continuation
SocketOpened(st, s) ==
    ConnectResolved(
        [st EXCEPT !.socks[s] = [state |-> "open", waiter |-> "none"],
                   !.retryCount = 0,
                   !.sinceOpen = 0,
                   !.dropPending = FALSE],
        st.socks[s].waiter)

\* What the 'close' event ends: an established connection, an intentional
\* close, or an attempt to open (and who awaits that attempt)
CloseEvent(sock) ==
    CASE sock.state = "open"    -> "close:open"
      [] sock.state = "closing" -> "close:closing"
      [] sock.waiter = "connect" -> "openFailed:connect"
      [] sock.waiter = "start"   -> "openFailed:start"
      [] OTHER                   -> "openFailed:retry"

\* Variant of the 'close' handler without the try/catch around the
\* observer: what onDisconnect throws ends the handler
SocketClosed_NoCatch(st, s) ==
    LET a == [Emit(st, CloseEvent(st.socks[s])) EXCEPT
                        !.socks[s] = NoSock,
                        !.ws = 0,
                        !.dropPending = @ \/ st.socks[s].state = "open",
                        !.awaitReconnect = @ \/ st.socks[s].state = "open"]
        b == FireOnDisconnect(RejectAllPending(a))
    IN  IF Threw(b) THEN b
        ELSE IF ~b.intentionalDisconnect /\ ~b.isDisposed
        THEN ScheduleReconnect(b) ELSE b

\* Variant of the 'close' handler that does not reject the pending calls
SocketClosed_NoReject(st, s) ==
    LET a == [Emit(st, CloseEvent(st.socks[s])) EXCEPT
                        !.socks[s] = NoSock,
                        !.ws = 0,
                        !.dropPending = @ \/ st.socks[s].state = "open",
                        !.awaitReconnect = @ \/ st.socks[s].state = "open"]
        b == FireOnDisconnect(a)
    IN  IF ~b.intentionalDisconnect /\ ~b.isDisposed
        THEN ScheduleReconnect(b) ELSE b

\* The ws 'close' handler of doConnect
SocketClosed(st, s) ==
    LET a == [Emit(st, CloseEvent(st.socks[s])) EXCEPT
                        !.socks[s] = NoSock,
                        !.ws = 0,
                        !.dropPending = @ \/ st.socks[s].state = "open",
                        !.awaitReconnect = @ \/ st.socks[s].state = "open"]
        b == FireOnDisconnect(RejectAllPending(a))
    IN  IF ~b.intentionalDisconnect /\ ~b.isDisposed
        THEN ScheduleReconnect(b) ELSE b

\* The res 'end' handler of doConnect when a target is found: new WebSocket(url)
SocketCreated(st, kind, s) ==
    [st EXCEPT !.discovery[kind] = @ - 1,
               !.socks[s] = [state |-> "connecting", waiter |-> kind],
               !.ws = s]

\* Every reject() of doConnect: request error, timeout, no target, bad body,
\* WebSocket constructor failure
DiscoveryFailed(st, kind) ==
    ConnectRejected([st EXCEPT !.discovery[kind] = @ - 1], kind)

\* The setTimeout callback of scheduleReconnect, up to doConnect's http.get
RetryTimerFired(st, orphan) ==
    LET a == [st EXCEPT !.retryTimer = FALSE,
                        !.orphanTimers = IF orphan /\ ~st.retryTimer
                                         THEN @ - 1 ELSE @]
    IN  IF a.intentionalDisconnect \/ a.isDisposed THEN a
        ELSE DoConnect(a, "retry")

----------------------------------------------------------------------------
\* AutoAcceptor (the CDP supervisor)

SupPort == Num(DefaultPort)

\* Variant of start() without the isDisposed guard
SupStart_NoDisposed(st) ==
    IF st.isRunning THEN st
    ELSE IF ConnectError(st, SupPort) # "none" THEN StartRejected(st)
    ELSE Connect(st, SupPort, "start")

\* AutoAcceptor.start up to `await this.cdp.connect(9222)`
SupStart(st) ==
    IF st.supDisposed \/ st.isRunning THEN st
    ELSE IF ConnectError(st, SupPort) # "none" THEN StartRejected(st)
    ELSE Connect(st, SupPort, "start")

\* Variant of stop() in which an error raised while closing the socket
\* leaves stop() before isRunning is cleared
SupStop_Propagates(st, closeThrows) ==
    IF st.supDisposed THEN st
    ELSE IF closeThrows /\ st.ws # 0
    THEN Disconnect(PausePolling(st), closeThrows)
    ELSE UpdateStatusBar(
            [Disconnect(PausePolling(st), closeThrows) EXCEPT
                !.isRunning = FALSE], "off")

\* AutoAcceptor.stop: cdp.disconnect() swallows an error of ws.close(), and
\* the catch block of stop() would force the same final assignments
SupStop(st, closeThrows) ==
    IF st.supDisposed THEN st
    ELSE UpdateStatusBar(
            [Disconnect(PausePolling(st), closeThrows) EXCEPT
                !.isRunning = FALSE], "off")

\* AutoAcceptor.toggle
SupToggle(st, closeThrows) ==
    IF st.supDisposed THEN st
    ELSE IF st.isRunning THEN SupStop(st, closeThrows) ELSE SupStart(st)

\* AutoAcceptor.dispose
SupDispose(st, closeThrows) ==
    IF st.supDisposed THEN st
    ELSE Disconnect(PausePolling([st EXCEPT !.supDisposed = TRUE]),
                    closeThrows)

\* Variant of poll without the isPollInProgress guard
Poll_NoGuard(st, throws) ==
    IF ~st.isRunning \/ st.supDisposed THEN st
    ELSE IF ~IsConnected(st) THEN st
    ELSE IF SendError(st, "Runtime.evaluate") # "none" THEN st
    ELSE Send([st EXCEPT !.isPollInProgress = TRUE],
              "Runtime.evaluate", throws, TRUE)

\* AutoAcceptor.poll up to `await this.cdp.send(...)`; a send() that throws
\* is caught and the finally block clears the guard
Poll(st, throws) ==
    IF st.isPollInProgress \/ ~st.isRunning \/ st.supDisposed THEN st
    ELSE IF ~IsConnected(st) THEN st
    ELSE IF SendError(st, "Runtime.evaluate") # "none" THEN st
    ELSE Send([st EXCEPT !.isPollInProgress = TRUE],
              "Runtime.evaluate", throws, TRUE)

----------------------------------------------------------------------------
\* The action script poll() evaluates in the page

MaxButtons == 2     \* buttons on the page
MaxText    == 2     \* characters of visible page text

\* targetTexts
TargetTexts == {"accept", "run", "retry", "apply"}

\* Button labels as the page shows them
RawLabels == {"Accept", " run ", "Run", "retry", "Apply", "Run all", "Cancel"}

\* (b.textContent || b.innerText || '').trim().toLowerCase()
NormalizeLabel(raw) ==
    CASE raw = "Accept"  -> "accept"
      [] raw = " run "   -> "run"
      [] raw = "Run"     -> "run"
      [] raw = "retry"   -> "retry"
      [] raw = "Apply"   -> "apply"
      [] raw = "Run all" -> "run all"
      [] OTHER           -> "cancel"

\* rect && rect.width > 0 && rect.height > 0
HasArea(b) == b.width > 0 /\ b.height > 0

\* String.prototype.includes on texts written as sequences of characters
Includes(text, sub) ==
    \E i \in 0..(Len(text) - Len(sub)) : SubSeq(text, i + 1, i + Len(sub)) = sub

\* The loop over blockedCmds: the first listed substring the page text holds
RECURSIVE FirstBlocked(_, _, _)
FirstBlocked(text, cmds, i) ==
    IF i > Len(cmds) THEN 0
    ELSE IF Includes(text, cmds[i]) THEN i
    ELSE FirstBlocked(text, cmds, i + 1)

NoResult == [tag |-> "pending", text |-> "", blocked |-> << >>, clicked |-> 0]

\* The value the script returns: 'none', 'clicked_' + text, 'blocked: ' +
\* blocked, or 'error: ' + message; clicked is the button b.click() ran on
ScriptValue(tag, text, blocked, clicked) ==
    [tag |-> tag, text |-> text, blocked |-> blocked, clicked |-> clicked]

\* Variant of the loop that does not look at the button's rectangle
RECURSIVE ScanButtons_NoRect(_, _, _)
ScanButtons_NoRect(page, cmds, i) ==
    IF i > Len(page.buttons) THEN ScriptValue("none", "", << >>, 0)
    ELSE LET b    == page.buttons[i]
             text == NormalizeLabel(b.text)
         IN  IF text \notin TargetTexts
             THEN ScanButtons_NoRect(page, cmds, i + 1)
             ELSE IF text = "run" /\ FirstBlocked(page.text, cmds, 1) > 0
             THEN ScriptValue("blocked", "",
                              cmds[FirstBlocked(page.text, cmds, 1)], 0)
             ELSE ScriptValue("clicked", text, << >>, i)

\* The loop over the buttons, from button i on
RECURSIVE ScanButtons(_, _, _)
ScanButtons(page, cmds, i) ==
    IF i > Len(page.buttons) THEN ScriptValue("none", "", << >>, 0)
    ELSE LET b    == page.buttons[i]
             text == NormalizeLabel(b.text)
         IN  IF text \notin TargetTexts THEN ScanButtons(page, cmds, i + 1)
             ELSE IF b.rectThrows THEN ScriptValue("error", "", << >>, 0)
             ELSE IF ~HasArea(b) THEN ScanButtons(page, cmds, i + 1)
             ELSE IF text = "run" /\ FirstBlocked(page.text, cmds, 1) > 0
             THEN ScriptValue("blocked", "",
                              cmds[FirstBlocked(page.text, cmds, 1)], 0)
             ELSE ScriptValue("clicked", text, << >>, i)

\* The action script
ActionScript(page, cmds) ==
    IF ~page.hasBody THEN ScriptValue("none", "", << >>, 0)
    ELSE ScanButtons(page, cmds, 1)

----------------------------------------------------------------------------
\* Actions: one macrotask each

Begin == [Cur EXCEPT !.events = << >>, !.settledNow = {},
                    !.lastSched = NoSched]

\* WebSocket objects have no names of their own: they are kept in a fixed
\* order (the one this.ws references first, then by state and waiter)
SockKey(st, s) ==
    (IF st.ws = s THEN 0 ELSE 100)
    + (CASE st.socks[s].state = "open"       -> 10
         [] st.socks[s].state = "connecting" -> 20
         [] st.socks[s].state = "closing"    -> 30
         [] OTHER                            -> 40)
    + (CASE st.socks[s].waiter = "connect" -> 1
         [] st.socks[s].waiter = "start"   -> 2
         [] st.socks[s].waiter = "retry"   -> 3
         [] OTHER                          -> 4)

RECURSIVE SockOrder(_, _)
SockOrder(st, ids) ==
    IF ids = {} THEN << >>
    ELSE LET m == CHOOSE a \in ids : \A b \in ids :
                    \/ SockKey(st, a) < SockKey(st, b)
                    \/ SockKey(st, a) = SockKey(st, b) /\ a <= b
         IN  << m >> \o SockOrder(st, ids \ {m})

Renumber(st) ==
    LET order == SockOrder(st, SockIds)
    IN  [st EXCEPT !.socks = [a \in SockIds |-> st.socks[order[a]]],
                   !.ws = IF st.ws = 0 THEN 0 ELSE 1]

\* The state in which a handler starts when the caller's observers throw
\* (t) or return
Obs(t) == [Begin EXCEPT !.throws = t]

\* A handler that returns without doing anything leaves the state as it is
Step(st) ==
    \E a \in {[RunMicrotasks(st) EXCEPT !.throws = FALSE]} :
        IF a = Begin THEN UNCHANGED vars
        ELSE IF a.socks = socks /\ a.ws = ws THEN Commit(a)
        ELSE \E r \in {Renumber(a)} : Commit(r)

InFlight == discovery["connect"] + discovery["start"] + discovery["retry"]

NotANumber == [Num(0) EXCEPT !.isNumber = FALSE]

Ports == { Num(DefaultPort), Num(70000), Num(0), NotANumber }

\* Values of type number that are no port: NaN and 0.5
OddPorts == { [Num(0) EXCEPT !.isNaN = TRUE], [Num(0) EXCEPT !.half = TRUE] }

Methods == {"Runtime.evaluate", ""}

Frames == { [kind |-> k, id |-> i] :
                k \in {"result", "error", "textid"}, i \in CallIds }
          \cup { [kind |-> "noid", id |-> 0], [kind |-> "garbage", id |-> 0] }

\* -- the user and the host drive the supervisor --
Start ==
    /\ (~supDisposed /\ ~isRunning /\ ~isDisposed) => InFlight < MaxDiscovery
    /\ Step(SupStart(Begin))

Stop == \E closeThrows \in BOOLEAN : Step(SupStop(Begin, closeThrows))

Toggle ==
    /\ (~supDisposed /\ ~isRunning /\ ~isDisposed) => InFlight < MaxDiscovery
    /\ \E closeThrows \in BOOLEAN : Step(SupToggle(Begin, closeThrows))

Dispose == \E closeThrows \in BOOLEAN : Step(SupDispose(Begin, closeThrows))

PollTick ==
    /\ pollInterval
    /\ \E throws \in BOOLEAN :
        /\ (~isPollInProgress /\ isRunning /\ ~supDisposed /\ IsConnected(Cur))
                => messageId <= MaxCalls
        /\ Step(Poll(Begin, throws))

\* -- an arbitrary caller drives the client --
CallConnect ==
    \E p \in Ports :
        /\ (~isDisposed /\ ValidPort(p)) => InFlight < MaxDiscovery
        /\ Step(Connect(Begin, p, "connect"))

CallSend ==
    \E m \in Methods, throws \in BOOLEAN :
        /\ (~isDisposed /\ m # "" /\ IsConnected(Cur)) => messageId <= MaxCalls
        /\ Step(Send(Begin, m, throws, FALSE))

CallDisconnect ==
    \E closeThrows \in BOOLEAN : Step(Disconnect(Begin, closeThrows))

CallDispose == Step(ClientDispose(Begin))

\* -- the environment: network, remote target, timers --
DiscoverySucceeds ==
    \E kind \in Kinds :
        /\ discovery[kind] > 0
        /\ \E s \in SockIds :
            /\ socks[s].state = "none"
            /\ \A t \in SockIds : socks[t].state = "none" => s <= t
            /\ Step(SocketCreated(Begin, kind, s))

DiscoveryFails ==
    \E kind \in Kinds :
        /\ discovery[kind] > 0
        /\ kind = "retry" => CanSchedule(Cur)
        /\ \E t \in BOOLEAN : Step(DiscoveryFailed(Obs(t), kind))

SocketOpen ==
    \E s \in SockIds :
        /\ socks[s].state = "connecting"
        /\ \E t \in BOOLEAN : Step(SocketOpened(Obs(t), s))

SocketClose ==
    \E s \in SockIds :
        /\ socks[s].state \in {"connecting", "open", "closing"}
        /\ CanSchedule(Cur)
        /\ \E t \in BOOLEAN : Step(SocketClosed(Obs(t), s))

Message ==
    \E f \in Frames :
        /\ \E s \in SockIds : socks[s].state = "open"
        /\ Step(HandleMessage(Begin, f))

CallTimeout ==
    \E id \in callTimers : Step(CallTimedOut(Begin, id))

RetryTimerFires ==
    \E orphan \in BOOLEAN :
        /\ IF orphan THEN orphanTimers > 0 ELSE retryTimer
        /\ (~intentionalDisconnect /\ ~isDisposed) => InFlight < MaxDiscovery
        /\ Step(RetryTimerFired(Begin, orphan))

\* No page is under evaluation
NoDom == [buttons |-> << >>, text |-> << >>, hasBody |-> FALSE]

ScriptIdle == dom = NoDom /\ blockedCmds = << >> /\ scriptResult = NoResult

\* ---- Settings strategy: managed settings and the saved originals ----
NumSettings == 2
MaxApplying == 2

\* The entries of AUTO_APPROVE_SETTINGS, in order
Keys == 1..NumSettings

\* A global value: not set, a value of the user's other than valueWhenOn,
\* or valueWhenOn
GlobalValues == {"unset", "user", "on"}

\* savedSettings: per key the saved global value, or no entry
NoEntry == "none"

NoSaved == [k \in Keys |-> NoEntry]

\* A new CommandAcceptor: timers counts the interval timers that are
\* scheduled, intervalId says whether the field refers to one
CmdNew == [isRunning |-> FALSE, intervalId |-> FALSE, timers |-> 0]

\* enablePolling is the host's autoAcceptAgent.enableCommandPolling as
\* config.get reads it (true when not set)
NativeNew ==
    [isRunning |-> FALSE, isDisposed |-> FALSE, savedSettings |-> NoSaved,
     applying |-> << >>, cmd |-> CmdNew, enablePolling |-> TRUE]

NativeIdle ==
    /\ settings = [k \in Keys |-> "unset"] /\ native = NativeNew
    /\ before = settings /\ phase = "idle"

Init ==
    /\ ws = 0 /\ messageId = 1 /\ callbacks = {} /\ port = Num(DefaultPort)
    /\ retryCount = 0 /\ retryTimer = FALSE
    /\ intentionalDisconnect = FALSE /\ isDisposed = FALSE
    /\ socks = [s \in SockIds |-> NoSock]
    /\ discovery = [k \in Kinds |-> 0]
    /\ callTimers = {} /\ orphanTimers = 0
    /\ calls = [id \in CallIds |-> 0]
    /\ isRunning = FALSE /\ supDisposed = FALSE /\ pollInterval = FALSE
    /\ isPollInProgress = FALSE /\ statusBar = "off" /\ pollCalls = {}
    /\ wired = TRUE
    /\ events = << >> /\ settledNow = {} /\ dropPending = FALSE /\ failedFired = 0
    /\ awaitReconnect = FALSE /\ sinceOpen = -1
    /\ lastSched = NoSched
    /\ ScriptIdle /\ NativeIdle

\* The client on its own: its observers are the caller's, which only record
ClientIdle ==
    /\ ws = 0 /\ messageId = 1 /\ callbacks = {} /\ port = Num(DefaultPort)
    /\ retryCount = 0 /\ retryTimer = FALSE
    /\ intentionalDisconnect = FALSE /\ isDisposed = FALSE
    /\ socks = [s \in SockIds |-> NoSock]
    /\ discovery = [k \in Kinds |-> 0]
    /\ callTimers = {} /\ orphanTimers = 0
    /\ calls = [id \in CallIds |-> 0]
    /\ isRunning = FALSE /\ supDisposed = FALSE /\ pollInterval = FALSE
    /\ isPollInProgress = FALSE /\ statusBar = "off" /\ pollCalls = {}
    /\ wired = FALSE
    /\ events = << >> /\ settledNow = {} /\ dropPending = FALSE /\ failedFired = 0
    /\ awaitReconnect = FALSE /\ sinceOpen = -1
    /\ lastSched = NoSched

ClientInit == ClientIdle /\ ScriptIdle /\ NativeIdle

Next ==
    \/ Start
    \/ Stop
    \/ Toggle
    \/ Dispose
    \/ PollTick
    \/ DiscoverySucceeds
    \/ DiscoveryFails
    \/ SocketOpen
    \/ SocketClose
    \/ Message
    \/ CallTimeout
    \/ RetryTimerFires

Spec == Init /\ [][Next]_vars

\* A timer armed by setTimeout fires: the per-call timeout of a call that
\* stays pending is eventually delivered
FairSpec == Spec /\ WF_vars(CallTimeout)

ClientNext ==
    \/ CallConnect
    \/ CallSend
    \/ CallDisconnect
    \/ CallDispose
    \/ DiscoverySucceeds
    \/ DiscoveryFails
    \/ SocketOpen
    \/ SocketClose
    \/ Message
    \/ CallTimeout
    \/ RetryTimerFires

ClientSpec == ClientInit /\ [][ClientNext]_vars

\* -- the client's connection API called with every kind of port value --
CallConnectAny ==
    \E p \in Ports \cup OddPorts :
        /\ (~isDisposed /\ ValidPort(p) /\ UrlPort(p))
                => InFlight < MaxDiscovery
        /\ Step(Connect(Begin, p, "connect"))

PortNext ==
    \/ CallConnectAny
    \/ CallDisconnect
    \/ CallDispose
    \/ DiscoverySucceeds
    \/ DiscoveryFails
    \/ SocketOpen
    \/ SocketClose
    \/ RetryTimerFires

PortSpec == ClientInit /\ [][PortNext]_vars

\* -- the action script on its own: one evaluation in an arbitrary page --
Buttons ==
    { [text |-> t, width |-> w, height |-> h, rectThrows |-> FALSE] :
        t \in RawLabels, w \in {0, 16}, h \in {0, 16} }
    \cup { [text |-> "Run", width |-> 16, height |-> 16, rectThrows |-> TRUE] }

Chars == {"r", "m", "f"}

Texts == UNION { [1..n -> Chars] : n \in 0..MaxText }

\* blockedCommands settings: none, the entries "rm" and "f", an empty entry
BlockedLists ==
    { << >>, << << "r", "m" >> >>, << << "f" >>, << "r", "m" >> >>,
      << << >> >> }

Doms ==
    { [buttons |-> bs, text |-> t, hasBody |-> hb] :
        bs \in UNION { [1..n -> Buttons] : n \in 0..MaxButtons },
        t \in Texts, hb \in BOOLEAN }

ScriptInit ==
    /\ ClientIdle
    /\ dom \in Doms /\ blockedCmds \in BlockedLists
    /\ scriptResult = NoResult
    /\ NativeIdle

Evaluate ==
    /\ scriptResult = NoResult
    /\ scriptResult' = ActionScript(dom, blockedCmds)
    /\ UNCHANGED << sessionVars, dom, blockedCmds, nativeVars >>

ScriptNext == Evaluate

ScriptSpec == ScriptInit /\ [][ScriptNext]_vars

----------------------------------------------------------------------------
\* Settings strategy: start() saves and overrides the managed settings, one
\* awaited config.update per setting; stop() and dispose() write the saved
\* values back.  A world is the acceptor, the host's settings and the history.

World == [nat |-> native, cfg |-> settings, before |-> before, phase |-> phase]

\* config.update(key, value, Global); the value undefined removes the setting
ConfigUpdate(cfg, k, v) == [cfg EXCEPT ![k] = v]

\* savedSettings.get(fullKey): undefined when the key has no entry
SavedGet(saved, k) == IF saved[k] = NoEntry THEN "unset" ELSE saved[k]

\* One pass of the loop in applyAutoApproveSettings, up to its await: save
\* the global value, then update; ok = FALSE is an update that is rejected
ApplyOne(w, k, ok) ==
    [w EXCEPT !.nat.savedSettings[k] = w.cfg[k],
              !.cfg = IF ok THEN ConfigUpdate(@, k, "on") ELSE @]

\* restoreSettings(): every key is written, present in savedSettings or not
RestoreSettings(w) ==
    [w EXCEPT !.cfg = [k \in Keys |-> SavedGet(w.nat.savedSettings, k)],
              !.nat.savedSettings = NoSaved]

\* The history: a stop() or dispose() directly after a start() call
Stopping(w) ==
    [w EXCEPT !.phase = IF @ = "started" THEN "stopped" ELSE "idle"]

\* Variant of CommandAcceptor.start without the isRunning check
CmdStart_NoGuard(c, enablePolling) ==
    IF ~enablePolling THEN c
    ELSE [c EXCEPT !.isRunning = TRUE, !.intervalId = TRUE,
                   !.timers = @ + 1]

\* CommandAcceptor.start
CmdStart(c, enablePolling) ==
    IF c.isRunning THEN c
    ELSE IF ~enablePolling THEN c
    ELSE [c EXCEPT !.isRunning = TRUE, !.intervalId = TRUE,
                   !.timers = @ + 1]

\* CommandAcceptor.stop
CmdStop(c) ==
    IF ~c.isRunning THEN c
    ELSE [c EXCEPT !.timers = IF c.intervalId THEN @ - 1 ELSE @,
                   !.intervalId = FALSE,
                   !.isRunning = FALSE]

\* CommandAcceptor.dispose
CmdDispose(c) == CmdStop(c)

\* start() up to the first await
NativeStart(w, ok) ==
    IF w.nat.isDisposed \/ w.nat.isRunning THEN w
    ELSE LET h == [w EXCEPT !.before = w.cfg, !.phase = "started",
                            !.nat.savedSettings = NoSaved]
         IN  [ApplyOne(h, 1, ok) EXCEPT !.nat.applying = Append(@, 2)]

\* The j-th awaiting start() resumes: the next setting, or the end of start()
NativeResume(w, j, ok) ==
    LET k == w.nat.applying[j]
    IN  IF k <= NumSettings
        THEN [ApplyOne(w, k, ok) EXCEPT !.nat.applying[j] = k + 1]
        ELSE [w EXCEPT !.nat.isRunning = TRUE,
                       !.nat.cmd = CmdStart(@, w.nat.enablePolling),
                       !.nat.applying =
                           SubSeq(@, 1, j - 1) \o SubSeq(@, j + 1, Len(@))]

NativeStop(w) ==
    IF w.nat.isDisposed THEN w
    ELSE [Stopping(RestoreSettings(w)) EXCEPT !.nat.isRunning = FALSE,
                                              !.nat.cmd = CmdStop(@)]

NativeDispose(w) ==
    IF w.nat.isDisposed THEN w
    ELSE [Stopping(RestoreSettings(w)) EXCEPT !.nat.isDisposed = TRUE,
                                              !.nat.cmd = CmdDispose(@)]

NativeToggle(w, ok) ==
    IF w.nat.isDisposed THEN w
    ELSE IF w.nat.isRunning THEN NativeStop(w) ELSE NativeStart(w, ok)

NativeCommit(w) ==
    /\ w # World
    /\ native' = w.nat /\ settings' = w.cfg
    /\ before' = w.before /\ phase' = w.phase
    /\ UNCHANGED << sessionVars, scriptVars >>

SettingsInit ==
    /\ ClientIdle /\ ScriptIdle
    /\ settings \in [Keys -> GlobalValues] /\ native = NativeNew
    /\ before = settings /\ phase = "idle"

SettingsStart ==
    /\ Len(native.applying) < MaxApplying
    /\ \E ok \in BOOLEAN : NativeCommit(NativeStart(World, ok))

SettingsResume ==
    \E j \in 1..Len(native.applying), ok \in BOOLEAN :
        NativeCommit(NativeResume(World, j, ok))

SettingsStop == \E w \in {NativeStop(World)} : NativeCommit(w)

SettingsDispose == \E w \in {NativeDispose(World)} : NativeCommit(w)

SettingsToggle ==
    /\ Len(native.applying) < MaxApplying
    /\ \E ok \in BOOLEAN : NativeCommit(NativeToggle(World, ok))

\* The user changes autoAcceptAgent.enableCommandPolling
SettingsSetPolling ==
    \E e \in BOOLEAN :
        NativeCommit([World EXCEPT !.nat.enablePolling = e])

SettingsNext ==
    \/ SettingsSetPolling
    \/ SettingsStart
    \/ SettingsResume
    \/ SettingsStop
    \/ SettingsDispose
    \/ SettingsToggle

SettingsSpec == SettingsInit /\ [][SettingsNext]_vars

----------------------------------------------------------------------------
\* Properties

\* C1: at most one poll tick is between setting and clearing
\* isPollInProgress, and a tick that fires while the previous tick's send()
\* is unsettled changes nothing: no send, no id consumed, nothing queued.
C1_NoOverlappingTicks ==
    /\ [](Cardinality(pollCalls) <= 1 /\ (pollCalls # {} => isPollInProgress))
    /\ [][(isPollInProgress /\ PollTick)
            => UNCHANGED << messageId, callbacks, callTimers, pollCalls >>]_vars

\* C1 witness: a tick is in the guarded region (its send() unsettled) while
\* the interval timer is armed and the socket is open, so the next tick fires
\* into the guard.
C1_Witness ==
    /\ isPollInProgress /\ pollCalls # {} /\ pollInterval /\ isRunning
    /\ IsConnected(Cur)

\* C2: every send() that registered a PendingCall is settled at most once,
\* and it is settled exactly when its entry has left the pending table.
C2_SettledExactlyOnce ==
    /\ \A id \in CallIds : id < messageId =>
            \/ id \in callbacks /\ calls[id] = 0
            \/ id \notin callbacks /\ calls[id] = 1
    /\ \A id \in CallIds :
            ~(<< id, "resolved" >> \in settledNow
                /\ << id, "rejected" >> \in settledNow)

\* C2 witness: two calls were accepted and both are settled, the last one by
\* a rejection (timeout, send failure, closure or disconnect).
C2_Witness ==
    /\ messageId = 3 /\ callbacks = {} /\ calls[1] = 1 /\ calls[2] = 1
    /\ \E id \in CallIds : << id, "rejected" >> \in settledNow

\* C3: the id send() assigns next is larger than every id in the pending
\* table, so no live entry is ever overwritten.
C3_IdsNotReusedWhileLive ==
    \A id \in callbacks : id < messageId

\* C3 witness: two entries are live at once, after a second connect() on the
\* same client.
C3_Witness ==
    /\ Cardinality(callbacks) = 2
    /\ \E s \in SockIds : socks[s].state = "closing"

\* C4: the step in which an established socket closes unexpectedly rejects
\* every call that was pending and leaves the pending table empty.
C4_CloseRejectsAllPending ==
    [][Fired("close:open")' =>
        /\ callbacks' = {}
        /\ \A id \in callbacks : << id, "rejected" >> \in settledNow'
        /\ \A id \in callbacks : calls'[id] = 1]_vars

\* C4 witness: an established socket just closed with two calls pending.
C4_Witness ==
    /\ Fired("close:open") /\ Cardinality(settledNow) = 2 /\ callbacks = {}

\* C5: the step in which an established socket closes unexpectedly fires
\* onDisconnect once (while observers are registered), and while the client
\* is reconnecting after that drop a reconnect attempt whose socket fails to
\* open fires no onDisconnect.
C5_OnDisconnectOncePerDrop ==
    [][/\ (Fired("close:open")' /\ ~isDisposed') => Count("onDisconnect")' = 1
       /\ (dropPending /\ Fired("openFailed:retry")')
            => ~Fired("onDisconnect")']_vars

\* C6: from the unexpected closure of an established socket until onReconnect
\* fires (or start() or stop() is called anew) the poll timer is not armed and
\* no call is sent.
C6_NoPollUntilReconnect ==
    /\ [](awaitReconnect => ~pollInterval)
    /\ [][awaitReconnect => messageId' = messageId]_vars

\* C7: while the client is reconnecting after a drop, onReconnectFailed
\* fires at most once, and once it has fired no retry timer is armed and no
\* reconnect attempt is in progress (until connect() is called).
C7_ExhaustedOnce ==
    dropPending =>
        /\ failedFired <= 1
        /\ failedFired >= 1 =>
            /\ ~retryTimer /\ orphanTimers = 0
            /\ discovery["retry"] = 0
            /\ \A s \in SockIds : socks[s].waiter # "retry"

\* The delays of the RetryPolicy example, attempts 0..9
C8_Delays ==
    << 1000, 2000, 4000, 8000, 16000, 30000, 30000, 30000, 30000, 30000 >>

\* C8 (as stated): the delay of a scheduled reconnect timer is that of
\* attempt k, the number of reconnect timers scheduled since the last
\* successful connection (a socket opening).
C8_DelayByAttemptsSinceOpen ==
    (lastSched # NoSched /\ lastSched.k >= 0 /\ lastSched.k < MaxCounted)
        => lastSched.delay = C8_Delays[lastSched.k + 1]

\* C8 (amended): the delay of a scheduled reconnect timer is
\* min(initialDelay * 2^n, maxDelay) for n the retry counter, which restarts
\* at 0 when a socket opens and when connect() is called; for n = 0..5 it is
\* 1000, 2000, 4000, 8000, 16000, 30000 and it never exceeds maxDelay.
C8_DelayByRetryCounter ==
    lastSched # NoSched =>
        /\ lastSched.n \in 0..(maxRetries - 1)
        /\ lastSched.delay = C8_Delays[lastSched.n + 1]
        /\ lastSched.delay <= maxRetryDelay

\* C8 witness: the timer for attempt 5 was just scheduled, the first one the
\* cap applies to.
C8_Witness ==
    /\ lastSched.n = 5 /\ lastSched.delay = 30000 /\ retryCount = 6

\* C9: from disconnect() until the next connect() the client is not
\* connected, no retry timer is armed, no reconnect attempt is made and
\* onReconnect does not fire.
C9_DisconnectIsFinal ==
    intentionalDisconnect =>
        /\ ~IsConnected(Cur)
        /\ ~retryTimer /\ orphanTimers = 0
        /\ ~Fired("onReconnect")

\* C10: every connect() future settles.  A socket that closes before it
\* opened was the last thing that could settle the connect() future awaiting
\* it, so that step must reject the future.
C10_ConnectSettles ==
    [][Fired("openFailed:connect")' => Fired("connectRejected")']_vars

\* C11: as long as no socket has ever opened, no retry timer is armed and no
\* step fires onDisconnect: a connect() attempt that fails at discovery or at
\* socket open leaves the client without automatic reconnection.
C11_NoRetryBeforeEstablished ==
    sinceOpen < 0 =>
        /\ ~retryTimer /\ orphanTimers = 0
        /\ ~Fired("onDisconnect")

\* C12: when dispose() returns, no retry timer is armed, no PendingCall is
\* outstanding and no socket is open.
C12_DisposeCleansUp ==
    [][(~isDisposed /\ isDisposed') =>
        /\ ~retryTimer' /\ orphanTimers' = 0
        /\ callbacks' = {}
        /\ \A s \in SockIds : socks'[s].state # "open"]_vars

\* C13: in every state after dispose(), connect() with any port and send()
\* with any method fail with Disposed and return the client as it was: no
\* socket, PendingCall, correlation id or timer is added.
C13_DisposedCallsChangeNothing ==
    isDisposed =>
        /\ \A p \in Ports :
            /\ ConnectError(Cur, p) = "Disposed"
            /\ Connect(Cur, p, "connect") = Cur
        /\ \A m \in Methods, throws \in BOOLEAN :
            /\ SendError(Cur, m) = "Disposed"
            /\ Send(Cur, m, throws, FALSE) = Cur

\* C13 witness: the client is disposed while its socket is open and a call
\* and a discovery request would otherwise be accepted.
C13_Witness ==
    /\ isDisposed /\ IsConnected(Cur)
    /\ messageId <= MaxCalls /\ InFlight < MaxDiscovery

\* A visible button whose label is "run" is on the page
C14_RunButtonVisible ==
    \E i \in 1..Len(dom.buttons) :
        /\ NormalizeLabel(dom.buttons[i].text) = "run"
        /\ HasArea(dom.buttons[i]) /\ ~dom.buttons[i].rectThrows

\* The page text holds a blocked substring
C14_TextBlocked ==
    \E j \in 1..Len(blockedCmds) : Includes(dom.text, blockedCmds[j])

\* C14: when a visible run button is present and the page text contains a
\* blocked substring, the script returns blocked with a listed substring the
\* text contains, and clicks nothing.
C14_BlockPreemptsClick ==
    (scriptResult # NoResult /\ dom.hasBody /\ C14_RunButtonVisible
        /\ C14_TextBlocked
        /\ \A i \in 1..Len(dom.buttons) : ~dom.buttons[i].rectThrows)
    => /\ scriptResult.tag = "blocked"
       /\ scriptResult.clicked = 0
       /\ Includes(dom.text, scriptResult.blocked)

\* C15: the step in which the connection attempt of start() fails (at
\* discovery, or at socket open) leaves running = false, no poll timer and
\* the indicator 'off'; running becomes true only in the step in which the
\* connect() of a start() resolves.
C15_FailedStartLeavesOff ==
    [][/\ ((Fired("openFailed:start")' \/ Fired("startRejected")')
                /\ ~supDisposed')
            => (~isRunning' /\ ~pollInterval' /\ statusBar' = "off")
       /\ (~isRunning /\ isRunning') => Fired("startResolved")']_vars

\* C16 (as stated): in every state stop() leaves running = false and no poll
\* timer, whether or not closing the socket throws.
C16_StopAlwaysStops ==
    \A closeThrows \in BOOLEAN :
        LET r == SupStop(Cur, closeThrows)
        IN  ~r.isRunning /\ ~r.pollInterval

\* C16 (amended): on a supervisor that is not disposed stop() leaves
\* running = false, no poll timer and the indicator 'off', whether or not
\* closing the socket throws; on a disposed supervisor stop() changes nothing.
C16_StopStopsUnlessDisposed ==
    \A closeThrows \in BOOLEAN :
        LET r == SupStop(Cur, closeThrows)
        IN  IF supDisposed THEN r = Cur
            ELSE ~r.isRunning /\ ~r.pollInterval /\ r.statusBar = "off"

\* C16 witness: stop() has just run on a running supervisor and the close of
\* its socket threw.
C16_Witness ==
    /\ Fired("closeThrew") /\ ~supDisposed
    /\ ~isRunning /\ ~pollInterval /\ statusBar = "off"

\* The supervisor is stopped
C17_Stopped == ~isRunning /\ ~pollInterval /\ statusBar = "off"

\* C17: the step in which onReconnectFailed fires leaves running = false, no
\* poll timer and the indicator 'off', and after that the supervisor leaves
\* this stopped state only through a start().
C17_ExhaustedStaysStopped ==
    [][/\ (Fired("onReconnectFailed")' /\ ~supDisposed') => C17_Stopped'
       /\ (failedFired >= 1 /\ failedFired' >= 1 /\ ~supDisposed'
                /\ C17_Stopped /\ ~C17_Stopped')
            => Fired("startResolved")']_vars


\* C18: once start() and the stop() or dispose() called after it have
\* both run to their end, every managed setting has the global value it had
\* when start() was called, the unset case included.
C18_SettingsRestored ==
    (phase = "stopped" /\ native.applying = << >>) => settings = before


\* C19: when the timer of a call fires while the call is still pending (no
\* response arrived within callTimeout), that step rejects the call with the
\* CallTimeout error, settles it exactly once and removes its entry from the
\* pending table.
C19_TimeoutRejectsAndRemoves ==
    [][\A id \in callTimers \cap callbacks :
        Step(CallTimedOut(Begin, id)) =>
            /\ Fired("CallTimeout")'
            /\ settledNow' = {<< id, "rejected" >>}
            /\ calls'[id] = 1
            /\ id \notin callbacks' /\ id \notin callTimers']_vars

\* C19 witness: the last step was a call timing out, and the pending table
\* it left is empty.
C19_Witness ==
    /\ Fired("CallTimeout") /\ callbacks = {}
    /\ \E id \in CallIds : settledNow = {<< id, "rejected" >>}

\* C20: the step in which one call times out leaves the socket, the retry
\* state and every other pending call as they were (no onDisconnect, no
\* reconnect timer, the other entries and their timers kept, their promises
\* unsettled), and after it each call still pending is resolved by its own
\* response.
C20_TimeoutIsolated ==
    /\ [][\A id \in callTimers \cap callbacks :
            Step(CallTimedOut(Begin, id)) =>
                /\ UNCHANGED << ws, socks, retryTimer, retryCount,
                                orphanTimers, intentionalDisconnect >>
                /\ lastSched' = NoSched
                /\ ~Fired("onDisconnect")'
                /\ callbacks' = callbacks \ {id}
                /\ callTimers' = callTimers \ {id}
                /\ \A j \in callbacks \ {id} : calls'[j] = calls[j]]_vars
    /\ [](Fired("CallTimeout") =>
            \A j \in callbacks :
                LET r == HandleMessage(Begin, [kind |-> "result", id |-> j])
                IN  /\ << j, "resolved" >> \in r.settledNow
                    /\ r.calls[j] = 1 /\ j \notin r.callbacks)

\* C20 witness: one call has just timed out while another call is pending
\* on the open socket with its own timer armed.
C20_Witness ==
    /\ Fired("CallTimeout") /\ callbacks # {} /\ callbacks \subseteq callTimers
    /\ IsConnected(Cur) /\ ~retryTimer /\ orphanTimers = 0

\* C21: the step in which a socket opens leaves retryCount = 0, and the
\* reconnect timer scheduled when an established socket drops is the first
\* of a fresh budget: it is computed from retryCount = 0 and its delay is
\* initialRetryDelay.
C21_FreshBudgetAfterOpen ==
    [][/\ (\E s \in SockIds : socks[s].state = "connecting"
                /\ Step(SocketOpened(Begin, s))) => retryCount' = 0
       /\ (Fired("close:open")' /\ lastSched' # NoSched) =>
            (lastSched'.n = 0 /\ lastSched'.delay = initialRetryDelay)]_vars

\* The state a handler returned, as the next handler finds it
Settled(st) == [st EXCEPT !.events = << >>, !.settledNow = {},
                          !.lastSched = NoSched]

\* C22: in every reachable state, a disconnect() directly after a
\* disconnect() returns normally and leaves every field of the client, the
\* sockets, the timers and the promises as the first one left them.
C22_DisconnectIdempotent ==
    \A c1 \in BOOLEAN, c2 \in BOOLEAN :
        LET a == Settled(Disconnect(Begin, c1))
        IN  Disconnect(a, c2) = a

\* C22 witness: a disconnect() has just closed the socket and rejected a
\* pending call, so the second one starts from a client that was active.
C22_Witness ==
    /\ intentionalDisconnect /\ ~isDisposed /\ ws = 0
    /\ settledNow # {} /\ callbacks = {}
    /\ \E s \in SockIds : socks[s].state = "closing"

\* A port value that is not a number or lies outside 1..65535
C23_NoPort(p) ==
    \/ ~p.isNumber \/ p.isNaN
    \/ p.value < 1
    \/ p.value > 65535 \/ (p.value = 65535 /\ p.half)

\* C23: on a client that is not disposed, connect(port) with a port that
\* is not a number or lies outside 1..65535 fails the InvalidArgument check
\* and the call leaves the socket, the sockets created, the requests in
\* flight, retryCount, intentionalDisconnect and the pending table as they
\* were, without settling as a failed connection attempt.
C23_InvalidPortRejected ==
    [][\A p \in Ports \cup OddPorts :
        (~isDisposed /\ C23_NoPort(p) /\ Step(Connect(Begin, p, "connect")))
            => /\ ConnectError(Cur, p) = "InvalidArgument"
               /\ UNCHANGED << ws, socks, discovery, retryCount,
                               intentionalDisconnect, callbacks >>
               /\ ~Fired("connectRejected")']_vars

\* The visible candidates of the page: buttons labelled with a target text
\* whose rectangle has an area
C24_Candidates ==
    { i \in 1..Len(dom.buttons) :
        /\ NormalizeLabel(dom.buttons[i].text) \in TargetTexts
        /\ HasArea(dom.buttons[i]) }

\* C24: on a page with a body whose elements answer getBoundingClientRect,
\* where no blocked substring occurs in the page text and a visible
\* candidate exists, the script clicks exactly one button, the first visible
\* candidate in document order, and returns Clicked with that button's
\* normalised label: Clicked(accept) when that button is an accept button.
C24_ClicksFirstCandidate ==
    ( /\ scriptResult # NoResult /\ dom.hasBody
      /\ \A i \in 1..Len(dom.buttons) : ~dom.buttons[i].rectThrows
      /\ \A k \in 1..Len(blockedCmds) : ~Includes(dom.text, blockedCmds[k])
      /\ C24_Candidates # {} )
    => /\ scriptResult.tag = "clicked"
       /\ scriptResult.clicked \in C24_Candidates
       /\ \A j \in C24_Candidates : scriptResult.clicked <= j
       /\ scriptResult.text =
            NormalizeLabel(dom.buttons[scriptResult.clicked].text)
       /\ (dom.buttons[scriptResult.clicked].text = "Accept"
            => scriptResult.text = "accept")

\* C24 witness: the script ran on a page with blocked commands configured
\* and text that holds none of them, whose first candidate is hidden and
\* whose second is a visible accept button, and it clicked the second.
C24_Witness ==
    /\ scriptResult.tag = "clicked" /\ scriptResult.text = "accept"
    /\ scriptResult.clicked = 2 /\ C24_Candidates = {2}
    /\ NormalizeLabel(dom.buttons[1].text) \in TargetTexts
    /\ Len(blockedCmds) > 0 /\ Len(dom.text) > 0

\* C25: a dispose() directly after a dispose() changes nothing, and in
\* every state of a disposed supervisor start(), stop(), toggle() and
\* dispose() return the whole state as it was: no supervisor field changes,
\* no discovery request or socket is added and no timer is armed.
C25_DisposedSupervisorInert ==
    /\ \A c1 \in BOOLEAN, c2 \in BOOLEAN :
        LET a == Settled(SupDispose(Begin, c1))
        IN  SupDispose(a, c2) = a
    /\ supDisposed =>
        /\ SupStart(Cur) = Cur
        /\ \A c \in BOOLEAN :
            /\ SupStop(Cur, c) = Cur
            /\ SupToggle(Cur, c) = Cur
            /\ SupDispose(Cur, c) = Cur

\* C25 witness: the supervisor was disposed while it ran (its socket is
\* closing), and start() would otherwise be accepted: not running, no
\* request in flight.
C25_Witness ==
    /\ supDisposed /\ ~isRunning /\ ~isDisposed /\ InFlight = 0
    /\ ws = 0 /\ \E s \in SockIds : socks[s].state = "closing"

\* C26: the step that delivers the close event of a socket the client no
\* longer references (closed by disconnect() or replaced by a later
\* connect) keeps the current socket handle, the pending table and the
\* retry timer as they were and schedules no reconnect.
C26_StaleCloseIgnored ==
    [][\A s \in SockIds :
        (s # ws /\ socks[s].state # "none" /\ Step(SocketClosed(Begin, s)))
            => /\ (ws # 0 => ws' # 0 /\ socks'[ws'] = socks[ws])
               /\ callbacks' = callbacks
               /\ retryTimer' = retryTimer /\ lastSched' = NoSched]_vars

\* C27: at most one socket of the client is connecting or open at any
\* time, whatever the interleaving of connect, disconnect and reconnect.
C27_OneLiveSocket ==
    Cardinality({ s \in SockIds :
                    socks[s].state \in {"connecting", "open"} }) <= 1

\* C28: whenever the poll timer is scheduled the supervisor is running and
\* not disposed.
C28_PollingImpliesRunning ==
    pollInterval => (isRunning /\ ~supDisposed)

\* C29: when a connection had been established and the supervisor is
\* stopped with the indicator 'off', is not disposed, and no start() is
\* connecting, the delivery of the close event of a socket that stop()
\* closed leaves the indicator 'off'.
C29_IndicatorOffAfterStop ==
    [][\A s \in SockIds :
        ( /\ socks[s].state = "closing" /\ intentionalDisconnect
          /\ sinceOpen >= 0
          /\ ~isRunning /\ ~supDisposed /\ statusBar = "off"
          /\ discovery["start"] = 0
          /\ \A t \in SockIds : socks[t].waiter # "start"
          /\ Step(SocketClosed(Begin, s)) )
        => statusBar' = "off"]_vars

\* C30: when stop() ran while a start() was awaiting its connect, the
\* step in which that start() completes leaves the supervisor stopped: not
\* running, no poll timer scheduled, the session not connected.
C30_StopDuringStartWins ==
    [][(Fired("startResolved")' /\ intentionalDisconnect /\ ~supDisposed)
        => /\ ~isRunning' /\ ~pollInterval'
           /\ (ws' = 0 \/ socks'[ws'].state # "open")]_vars

\* C31: whenever a poll tick has set isPollInProgress the guard is
\* eventually cleared again, whichever way its send() ends.
C31_GuardEventuallyCleared ==
    isPollInProgress ~> ~isPollInProgress

\* C31 witness: the established socket dropped while the send() of a tick
\* was pending; the closure rejected the call and the guard is clear again.
C31_Witness ==
    /\ Fired("close:open") /\ ~isPollInProgress /\ pollCalls = {}
    /\ isRunning /\ \E id \in CallIds : << id, "rejected" >> \in settledNow

\* C32: in every reachable state, a reconnect timer that is armed implies
\* that the poll timer is not scheduled.
C32_RetryExcludesPolling ==
    (retryTimer \/ orphanTimers > 0) => ~pollInterval

\* C33: the step that handles a frame with a numeric id of a live
\* PendingCall settles that call and no other (resolved for a result,
\* rejected for an error payload), exactly once, removes its entry and
\* cancels its timer; every other entry, timer and promise is unchanged.
C33_MatchingFrameSettlesOne ==
    [][\A f \in Frames :
        ( /\ f.kind \in {"result", "error"} /\ f.id \in callbacks
          /\ Step(HandleMessage(Begin, f)) )
        => /\ settledNow' = {<< f.id, IF f.kind = "error" THEN "rejected"
                                      ELSE "resolved" >>}
           /\ calls'[f.id] = 1
           /\ callbacks' = callbacks \ {f.id}
           /\ callTimers' = callTimers \ {f.id}
           /\ \A j \in CallIds \ {f.id} : calls'[j] = calls[j]]_vars

\* C33 witness: a response has just resolved one call while another call
\* is still pending with its timer armed.
C33_Witness ==
    /\ \E id \in CallIds : settledNow = {<< id, "resolved" >>}
    /\ callbacks # {} /\ callbacks \subseteq callTimers

\* C34: in every reachable state, handling a frame that is not JSON, has no
\* id, has an id that is not a number, or has a numeric id with no live
\* PendingCall returns the state as it was: nothing is settled and the
\* pending table, the timers, the sockets and the retry state are unchanged.
C34_UnmatchedFrameDiscarded ==
    \A f \in Frames :
        (f.kind \in {"garbage", "noid", "textid"} \/ f.id \notin callbacks)
            => HandleMessage(Begin, f) = Begin

\* C34 witness: a call has timed out, so its response would come late,
\* while another call is pending on the open socket.
C34_Witness ==
    /\ Fired("CallTimeout") /\ callbacks # {} /\ IsConnected(Cur)
    /\ \E id \in CallIds : id \notin callbacks /\ calls[id] = 1

\* C35: a step in which a poll tick handles the outcome of its send() (a
\* response of any kind, an error frame, the timeout of the call, or a
\* send() that failed at once) leaves the socket, the retry counter and
\* timers, running, the poll timer and the indicator as they were, and the
\* guard is clear afterwards so that the next tick runs.
C35_OutcomeHandlingIsInert ==
    [][( /\ (Message \/ CallTimeout \/ PollTick)
         /\ \E id \in CallIds : calls[id] = 0 /\ calls'[id] > 0 )
        => /\ UNCHANGED << ws, socks, retryCount, retryTimer, orphanTimers,
                           intentionalDisconnect, discovery, isRunning,
                           supDisposed, pollInterval, statusBar >>
           /\ ~isPollInProgress' /\ pollCalls' = {}]_vars

\* C35 witness: the send() of a tick has just been rejected by an error
\* frame, and the supervisor is still running, polling and connected.
C35_Witness ==
    /\ \E id \in CallIds : settledNow = {<< id, "rejected" >>}
    /\ events = << >> /\ isRunning /\ pollInterval /\ ~isPollInProgress
    /\ IsConnected(Cur)

\* What a handler did, apart from the record of what the observers threw
Quiet(st) ==
    [st EXCEPT !.throws = FALSE,
               !.events = SelectSeq(@, LAMBDA e :
                    e \notin {"onLog:threw", "onDisconnect:threw",
                              "onReconnect:threw", "onReconnectFailed:threw"})]

\* C36: whatever the observers registered with onDisconnect, onReconnect,
\* onReconnectFailed and onLog throw, the handlers that call them (socket
\* closed, socket opened, failed connection attempt) do exactly what they do
\* when the observers return; in particular, after an unexpected closure
\* whose onDisconnect observer threw, no call is pending and a reconnect is
\* scheduled (or the retries were exhausted and onReconnectFailed fired).
C36_ObserverThrowIsContained ==
    /\ \A s \in SockIds : socks[s].state # "none" =>
            Quiet(SocketClosed(Obs(TRUE), s)) = SocketClosed(Begin, s)
    /\ \A s \in SockIds : socks[s].state = "connecting" =>
            Quiet(SocketOpened(Obs(TRUE), s)) = SocketOpened(Begin, s)
    /\ \A kind \in Kinds : discovery[kind] > 0 =>
            Quiet(DiscoveryFailed(Obs(TRUE), kind)) = DiscoveryFailed(Begin, kind)
    /\ (Fired("onDisconnect:threw") /\ ~intentionalDisconnect) =>
            /\ callbacks = {} /\ callTimers = {}
            /\ retryTimer \/ Fired("onReconnectFailed")

\* C36 witness: an open socket closed unexpectedly with a call pending, the
\* onDisconnect observer threw, the call was rejected and the retry timer
\* is armed.
C36_Witness ==
    /\ Fired("close:open") /\ Fired("onDisconnect:threw")
    /\ \E id \in CallIds : << id, "rejected" >> \in settledNow
    /\ callbacks = {} /\ retryTimer /\ lastSched # NoSched

\* C37 (amended): on a client that is not disposed, send() with an empty
\* method fails with InvalidArgument whatever the socket's state, and send()
\* with a method while the socket is not open fails with NotConnected; in
\* both cases the client is returned as it was: no PendingCall, no
\* correlation id consumed, no timer, no call in flight.
C37_RefusedSendChangesNothing ==
    ~isDisposed =>
        \A m \in Methods, throws \in BOOLEAN :
            /\ m = "" => SendError(Cur, m) = "InvalidArgument"
            /\ (m # "" /\ ~IsConnected(Cur)) => SendError(Cur, m) = "NotConnected"
            /\ (m = "" \/ ~IsConnected(Cur)) =>
                    Send(Begin, m, throws, FALSE) = Begin

\* C37 witness: the client has issued calls before, and its current socket
\* exists but is not open yet.
C37_Witness ==
    /\ ~isDisposed /\ ws # 0 /\ socks[ws].state = "connecting"
    /\ messageId > 1

\* C37 as stated: every send() while the socket is not open fails with
\* NotConnected, every send() with an empty method with InvalidArgument, and
\* neither changes the client.
C37_NotOpenMeansNotConnected ==
    \A m \in Methods, throws \in BOOLEAN :
        /\ ~IsConnected(Cur) => SendError(Cur, m) = "NotConnected"
        /\ m = "" => SendError(Cur, m) = "InvalidArgument"
        /\ (m = "" \/ ~IsConnected(Cur)) => Send(Begin, m, throws, FALSE) = Begin

\* C38: the only retry timer that is armed is the one this.retryTimer refers
\* to, so that after disconnect() on a client that is not disposed no retry
\* timer is armed.
C38_OneRetryTimer ==
    /\ orphanTimers = 0
    /\ ~isDisposed => \A closeThrows \in BOOLEAN :
        LET a == Disconnect(Begin, closeThrows)
        IN  ~a.retryTimer /\ a.orphanTimers = 0

\* C39: a stop() or dispose() of the settings strategy that runs while no
\* originals are saved and no start() is under way leaves every managed
\* setting as it was.
C39_NothingSavedNothingWritten ==
    [][( /\ native.savedSettings = NoSaved /\ native.applying = << >>
         /\ (SettingsStop \/ SettingsDispose) )
        => settings' = settings]_vars

\* C40: the CommandAcceptor has one interval timer scheduled when isRunning
\* is true and none when it is false, and intervalId refers to it; start()
\* while running or with polling disabled returns the acceptor as it was;
\* after stop() no timer is scheduled.
C40_OneIntervalTimer ==
    /\ native.cmd.timers = IF native.cmd.isRunning THEN 1 ELSE 0
    /\ native.cmd.intervalId = native.cmd.isRunning
    /\ \A e \in BOOLEAN :
        (native.cmd.isRunning \/ ~e) => CmdStart(native.cmd, e) = native.cmd
    /\ CmdStop(native.cmd).timers = 0 /\ ~CmdStop(native.cmd).isRunning
    /\ CmdDispose(native.cmd).timers = 0

\* C40 witness: the CommandAcceptor is running with its timer while a second
\* start() of the acceptor has applied every setting and is about to call
\* commandAcceptor.start() again.
C40_Witness ==
    /\ native.cmd.isRunning /\ native.cmd.timers = 1
    /\ \E j \in 1..Len(native.applying) : native.applying[j] > NumSettings

====
